---------------------------- MODULE Spec2Model ----------------------------
(***************************************************************************)
(* A model of paysage/models/hidden.py: the LatentModel base class and the *)
(* RestrictedBoltzmannMachine built on it.                                 *)
(*                                                                         *)
(* Numbers.  The program computes in 32-bit floats.  The model computes in *)
(* integers: parameters, states and fields are integers, and a value that  *)
(* numpy obtains by averaging is kept as an exact fraction a / den.  The   *)
(* transcendental layer functions (sigmoid, softplus, ...), which live in  *)
(* the layers module and not in hidden.py, are rounded to the nearest      *)
(* integer.                                                                *)
(*                                                                         *)
(* Arrays.  A numpy array is a record [ndim, a, den]: ndim is the number   *)
(* of axes (0 a scalar, 1 a vector, 2 a batch or matrix), a holds the      *)
(* numerators (an integer, a sequence, a sequence of rows) and den the     *)
(* common denominator.                                                     *)
(***************************************************************************)
EXTENDS Integers, Sequences, FiniteSets, TLC

VARIABLES params, constraints, penalty, last

vars == <<params, constraints, penalty, last>>

(***************************************************************************)
(* Bounds of the model.                                                    *)
(***************************************************************************)
\* a parameter (a weight, a bias) is -MaxP, 0 or MaxP
MaxP == 1
\* a batch holds 1 .. MaxBatch rows
MaxBatch == 2
\* markov_chain and the iterations run 0 .. MaxSteps steps
MaxSteps == 2
\* a uniform random number is one of 0/UniformRes .. (UniformRes-1)/UniformRes
UniformRes == 2

\* RestrictedBoltzmannMachine(nvis, nhid): the sizes the model is built with
nvis == 2
nhid == 2

\* the default layer types of RestrictedBoltzmannMachine.__init__
vis_type == "ising"
hid_type == "bernoulli"

ParamNames == {"weights", "visible_bias", "hidden_bias"}

(***************************************************************************)
(* numpy arrays                                                            *)
(***************************************************************************)
Scal(x) == [ndim |-> 0, a |-> x, den |-> 1]
Vec(v) == [ndim |-> 1, a |-> v, den |-> 1]
Mat(rows) == [ndim |-> 2, a |-> rows, den |-> 1]

\* Python's None
None == [ndim |-> -1, a |-> 0, den |-> 1]
IsNone(x) == x.ndim = -1

RECURSIVE SumSeq(_)
SumSeq(s) == IF Len(s) = 0 THEN 0 ELSE Head(s) + SumSeq(Tail(s))

DotVV(u, v) == SumSeq([i \in 1..Len(u) |-> u[i] * v[i]])

\* len(x) of a vector or batch
PyLen(x) == Len(x.a)

\* numpy.dot(x, y) for the shapes hidden.py uses
Dot(x, y) ==
    CASE x.ndim = 1 /\ y.ndim = 1 -> Scal(DotVV(x.a, y.a))
      [] x.ndim = 2 /\ y.ndim = 1 ->
            Vec([k \in 1..Len(x.a) |-> DotVV(x.a[k], y.a)])
      [] x.ndim = 1 /\ y.ndim = 2 ->
            Vec([j \in 1..Len(y.a[1]) |->
                    SumSeq([i \in 1..Len(x.a) |-> x.a[i] * y.a[i][j]])])
      [] x.ndim = 2 /\ y.ndim = 2 ->
            Mat([k \in 1..Len(x.a) |-> [j \in 1..Len(y.a[1]) |->
                    SumSeq([i \in 1..Len(x.a[k]) |-> x.a[k][i] * y.a[i][j]])]])

\* M.T
Transpose(M) ==
    Mat([j \in 1..Len(M.a[1]) |-> [i \in 1..Len(M.a) |-> M.a[i][j]]])

\* -x
Neg(x) ==
    CASE x.ndim = 0 -> [x EXCEPT !.a = -x.a]
      [] x.ndim = 1 -> [x EXCEPT !.a = [i \in 1..Len(x.a) |-> -x.a[i]]]
      [] x.ndim = 2 -> [x EXCEPT !.a = [k \in 1..Len(x.a) |->
                                [i \in 1..Len(x.a[k]) |-> -x.a[k][i]]]]

\* x + y with numpy's broadcasting, for the shapes hidden.py uses
Add(x, y) ==
    CASE x.ndim = 0 /\ y.ndim = 0 -> Scal(x.a + y.a)
      [] x.ndim = 0 /\ y.ndim = 1 -> Vec([i \in 1..Len(y.a) |-> x.a + y.a[i]])
      [] x.ndim = 1 /\ y.ndim = 0 -> Vec([i \in 1..Len(x.a) |-> x.a[i] + y.a])
      [] x.ndim = 1 /\ y.ndim = 1 -> Vec([i \in 1..Len(x.a) |-> x.a[i] + y.a[i]])
      [] x.ndim = 1 /\ y.ndim = 2 ->
            Mat([k \in 1..Len(y.a) |-> [i \in 1..Len(x.a) |-> x.a[i] + y.a[k][i]]])
      [] x.ndim = 2 /\ y.ndim = 1 ->
            Mat([k \in 1..Len(x.a) |-> [i \in 1..Len(y.a) |-> x.a[k][i] + y.a[i]]])

\* x - y
Sub(x, y) == Add(x, Neg(y))

\* numpy.sum(x): the sum of every entry, whatever the number of axes
NumpySum(x) ==
    CASE x.ndim = 0 -> Scal(x.a)
      [] x.ndim = 1 -> Scal(SumSeq(x.a))
      [] x.ndim = 2 -> Scal(SumSeq([k \in 1..Len(x.a) |-> SumSeq(x.a[k])]))

\* numpy.mean(x): the mean of every entry
NumpyMean(x) ==
    CASE x.ndim = 0 -> x
      [] x.ndim = 1 -> [ndim |-> 0, a |-> SumSeq(x.a), den |-> Len(x.a)]

\* numpy.mean(x, axis=0) of a batch: the mean of each column
NumpyMeanAxis0(x) ==
    [ndim |-> 1,
     a |-> [i \in 1..Len(x.a[1]) |-> SumSeq([k \in 1..Len(x.a) |-> x.a[k][i]])],
     den |-> Len(x.a)]

\* x.astype(x.dtype): a copy of x
AsType(x) == x

\* x[list(indices)]: the rows of x that indices names (0-based)
Take(x, indices) ==
    Mat([k \in 1..Len(indices) |-> x.a[indices[k] + 1]])


\* the function F applied to every entry of x
MapArr(F, x) ==
    CASE x.ndim = 0 -> [x EXCEPT !.a = F[x.a]]
      [] x.ndim = 1 -> [x EXCEPT !.a = [i \in 1..Len(x.a) |-> F[x.a[i]]]]
      [] x.ndim = 2 -> [x EXCEPT !.a = [k \in 1..Len(x.a) |->
                                [i \in 1..Len(x.a[k]) |-> F[x.a[k][i]]]]]

(***************************************************************************)
(* The layers module (layers.get(type)): the five primitives of a layer,   *)
(* each acting on a field entry by entry.  The module is not part of       *)
(* hidden.py; the primitives follow its documented contract, rounded to    *)
(* the nearest integer.  A random draw is a threshold u: the logit of the  *)
(* uniform number the layer compares the unit's probability with.          *)
(***************************************************************************)
LayerTypes == {"ising", "bernoulli"}

LayerOff(type) == IF type = "ising" THEN -1 ELSE 0
LayerOn(type) == 1
LayerStates(type) == {LayerOff(type), LayerOn(type)}

\* sample_state(field): a unit is on iff its field exceeds the drawn threshold
LayerSampleState(type, field, u) ==
    LET F == [f \in Int |-> IF f > u THEN LayerOn(type) ELSE LayerOff(type)]
    IN  MapArr(F, field)

\* mean(field): sigmoid(f) for bernoulli, tanh(f) for ising, rounded
LayerMean(type, field) ==
    LET F == [f \in Int |->
                IF type = "bernoulli"
                THEN (IF f >= 0 THEN 1 ELSE 0)
                ELSE (IF f > 0 THEN 1 ELSE IF f < 0 THEN -1 ELSE 0)]
    IN  MapArr(F, field)

\* prox(field): the mode of the unit
LayerProx(type, field) ==
    LET F == [f \in Int |-> IF f > 0 THEN LayerOn(type) ELSE LayerOff(type)]
    IN  MapArr(F, field)

\* log_partition_function(field): log(1 + exp f) for bernoulli,
\* log(2 cosh f) for ising, rounded; one value per unit
LayerLogPartitionFunction(type, field) ==
    LET Abs(f) == IF f < 0 THEN -f ELSE f
        F == [f \in Int |->
                IF type = "bernoulli"
                THEN (IF f < 0 THEN 0 ELSE IF f < 2 THEN 1 ELSE f)
                ELSE (IF Abs(f) < 2 THEN 1 ELSE Abs(f))]
    IN  MapArr(F, field)

\* random(template): a random state of the template's shape
LayerRandom(type, template, u) ==
    LET F == [f \in Int |-> IF 0 > u THEN LayerOn(type) ELSE LayerOff(type)]
    IN  MapArr(F, template)

(***************************************************************************)
(* The backend (en): the array primitives hidden.py calls.  The backend is *)
(* not part of hidden.py; the primitives follow its documented contract.   *)
(***************************************************************************)
\* batch_dot(A, W, B): sum_ij A[k][i] W[i][j] B[k][j], one scalar per row k
batch_dot(A, W, B) ==
    Vec([k \in 1..Len(A.a) |->
          SumSeq([i \in 1..Len(W.a) |->
                    SumSeq([j \in 1..Len(W.a[i]) |->
                              A.a[k][i] * W.a[i][j] * B.a[k][j]])])])

\* outer(a, b): the outer product of two vectors
outer(x, y) ==
    Mat([i \in 1..Len(x.a) |-> [j \in 1..Len(y.a) |-> x.a[i] * y.a[j]]])

\* batch_outer(A, B): the outer product of each row pair, averaged
batch_outer(A, B) ==
    [ndim |-> 2,
     a |-> [i \in 1..Len(A.a[1]) |-> [j \in 1..Len(B.a[1]) |->
              SumSeq([k \in 1..Len(A.a) |-> A.a[k][i] * B.a[k][j]])]],
     den |-> Len(A.a)]

RECURSIVE Pow2(_)
Pow2(n) == IF n <= 0 THEN 1 ELSE 2 * Pow2(n - 1)

SeqMax(s) == CHOOSE m \in {s[i] : i \in 1..Len(s)} :
                \A i \in 1..Len(s) : s[i] <= m

\* importance_weights(energies, temperature): exp(-E/T) normalized to sum
\* to one (the base of the exponential is taken as 2); arithmetic on
\* None raises TypeError
importance_weights(energies, temperature) ==
    IF IsNone(energies)
    THEN [exc |-> "TypeError", val |-> None]
    ELSE LET w == [i \in 1..Len(energies.a) |->
                     Pow2((SeqMax(energies.a) - energies.a[i]) \div temperature)]
         IN  [exc |-> "none",
              val |-> [ndim |-> 1, a |-> w, den |-> SumSeq(w)]]

\* w.clip(min=0.0)
ClipMin0(w) == MapArr([x \in Int |-> IF x < 0 THEN 0 ELSE x], w)

\* numpy.random.choice(numpy.arange(n), size=n, replace=True, p=weights):
\* each index is found by searching the cumulative weights for a uniform
\* draw r / UniformRes; an index of weight zero is never drawn
ChoiceOne(weights, r) ==
    LET n == Len(weights.a)
        cum(i) == SumSeq(SubSeq(weights.a, 1, i))
    IN  (CHOOSE i \in 1..n :
            /\ r * weights.den < cum(i) * UniformRes
            /\ \A j \in 1..(i - 1) : ~(r * weights.den < cum(j) * UniformRes)) - 1

(***************************************************************************)
(* RestrictedBoltzmannMachine: fields, energies and derivatives.  p is the *)
(* model's params.                                                         *)
(***************************************************************************)
hidden_field(p, visible) ==
    Add(Vec(p.hidden_bias), Dot(visible, Mat(p.weights)))

visible_field(p, hidden) ==
    Add(Vec(p.visible_bias), Dot(hidden, Transpose(Mat(p.weights))))

sample_hidden(p, visible, u) ==
    LayerSampleState(hid_type, hidden_field(p, visible), u)

hidden_mean(p, visible) == LayerMean(hid_type, hidden_field(p, visible))

hidden_mode(p, visible) == LayerProx(hid_type, hidden_field(p, visible))

sample_visible(p, hidden, u) ==
    LayerSampleState(vis_type, visible_field(p, hidden), u)

visible_mean(p, hidden) == LayerMean(vis_type, visible_field(p, hidden))

visible_mode(p, hidden) == LayerProx(vis_type, visible_field(p, hidden))

\* joint_energy with the weights transposed in its batch branch
joint_energy_transposed(p, visible, hidden) ==
    LET energy == Sub(Neg(Dot(visible, Vec(p.visible_bias))),
                      Dot(hidden, Vec(p.hidden_bias)))
    IN  IF visible.ndim = 2
        THEN NumpyMean(Sub(energy,
                batch_dot(visible, Transpose(Mat(p.weights)), hidden)))
        ELSE NumpyMean(Sub(energy, Dot(visible, Dot(Mat(p.weights), hidden))))

joint_energy(p, visible, hidden) ==
    LET energy == Sub(Neg(Dot(visible, Vec(p.visible_bias))),
                      Dot(hidden, Vec(p.hidden_bias)))
    IN  IF visible.ndim = 2
        THEN NumpyMean(Sub(energy, batch_dot(visible, Mat(p.weights), hidden)))
        ELSE NumpyMean(Sub(energy, Dot(visible, Dot(Mat(p.weights), hidden))))

marginal_free_energy(p, visible) ==
    LET log_Z_hidden ==
            LayerLogPartitionFunction(hid_type, hidden_field(p, visible))
    IN  Sub(Neg(Dot(visible, Vec(p.visible_bias))), NumpySum(log_Z_hidden))

\* derivatives with the minus sign of the batch branch's weights lost
derivatives_unsigned(p, visible) ==
    LET mean_hidden == hidden_mean(p, visible)
    IN  IF mean_hidden.ndim = 2
        THEN [visible_bias |-> Neg(NumpyMeanAxis0(visible)),
              hidden_bias |-> Neg(NumpyMeanAxis0(mean_hidden)),
              weights |-> batch_outer(visible, mean_hidden)]
        ELSE [visible_bias |-> Neg(visible),
              hidden_bias |-> Neg(mean_hidden),
              weights |-> Neg(outer(visible, mean_hidden))]

derivatives(p, visible) ==
    LET mean_hidden == hidden_mean(p, visible)
    IN  IF mean_hidden.ndim = 2
        THEN [visible_bias |-> Neg(NumpyMeanAxis0(visible)),
              hidden_bias |-> Neg(NumpyMeanAxis0(mean_hidden)),
              weights |-> Neg(batch_outer(visible, mean_hidden))]
        ELSE [visible_bias |-> Neg(visible),
              hidden_bias |-> Neg(mean_hidden),
              weights |-> Neg(outer(visible, mean_hidden))]


(***************************************************************************)
(* The random source.  rng holds the draws the process-wide generator      *)
(* will hand out: u the thresholds of sample_state and random, r the       *)
(* uniform numbers of numpy.random.choice; iu and ir count the draws       *)
(* handed out so far.  Past the end of a tape the draw is 0.               *)
(***************************************************************************)
Draws == {-1, 1}

NextU(rng) == IF rng.iu < Len(rng.u) THEN rng.u[rng.iu + 1] ELSE 0
AdvU(rng) == [rng EXCEPT !.iu = rng.iu + 1]
NextR(rng, k) == IF rng.ir + k <= Len(rng.r) THEN rng.r[rng.ir + k] ELSE 0
AdvR(rng, n) == [rng EXCEPT !.ir = rng.ir + n]

(***************************************************************************)
(* LatentModel.  A method that can raise returns a record whose exc names  *)
(* the exception ("none": it returned val).  calls lists the calls of      *)
(* mcstep and resample_state a method made, in order.                      *)
(***************************************************************************)
\* placeholder function -- defined in each layer: its body is pass
marginal_energy(p, visible) == None

resample_state(p, visibile, temperature, rng) ==
    LET energies == marginal_energy(p, visibile)
        iw == importance_weights(energies, temperature)
    IN  IF iw.exc # "none"
        THEN [exc |-> iw.exc, val |-> None, rng |-> rng, energies |-> energies]
        ELSE LET weights == ClipMin0(iw.val)
                 n == PyLen(visibile)
                 indices == [k \in 1..n |-> ChoiceOne(weights, NextR(rng, k))]
             IN  [exc |-> "none", val |-> Take(visibile, indices),
                  rng |-> AdvR(rng, n), energies |-> energies]

mcstep(p, vis, rng) ==
    LET hid == sample_hidden(p, vis, NextU(rng))
        rng1 == AdvU(rng)
    IN  [val |-> sample_visible(p, hid, NextU(rng1)), rng |-> AdvU(rng1)]

\* the loop of markov_chain from iteration t on
RECURSIVE markov_chain_loop(_, _, _, _, _, _, _, _)
markov_chain_loop(p, new_vis, t, steps, resample, temperature, rng, calls) ==
    IF t >= steps
    THEN [exc |-> "none", val |-> new_vis, rng |-> rng, calls |-> calls]
    ELSE LET s == mcstep(p, new_vis, rng)
             calls1 == Append(calls, [f |-> "mcstep", arg |-> new_vis,
                                      temperature |-> 0, ret |-> s.val])
         IN  IF resample
             THEN LET r == resample_state(p, s.val, temperature, s.rng)
                      calls2 == Append(calls1, [f |-> "resample_state",
                                    arg |-> s.val, temperature |-> temperature,
                                    ret |-> r.val])
                  IN  IF r.exc # "none"
                      THEN [exc |-> r.exc, val |-> None, rng |-> r.rng,
                            calls |-> calls2]
                      ELSE markov_chain_loop(p, r.val, t + 1, steps, resample,
                                             temperature, r.rng, calls2)
             ELSE markov_chain_loop(p, s.val, t + 1, steps, resample,
                                    temperature, s.rng, calls1)

\* markov_chain with its loop one iteration short: range(1, steps)
markov_chain_short(p, vis, steps, resample, temperature, rng) ==
    markov_chain_loop(p, AsType(vis), 1, steps, resample, temperature, rng, <<>>)

markov_chain(p, vis, steps, resample, temperature, rng) ==
    markov_chain_loop(p, AsType(vis), 0, steps, resample, temperature, rng, <<>>)

mean_field_step(p, vis) == visible_mean(p, hidden_mean(p, vis))

RECURSIVE mean_field_loop(_, _, _, _)
mean_field_loop(p, new_vis, t, steps) ==
    IF t >= steps THEN new_vis
    ELSE mean_field_loop(p, mean_field_step(p, new_vis), t + 1, steps)

mean_field_iteration(p, vis, steps) == mean_field_loop(p, AsType(vis), 0, steps)

deterministic_step(p, vis) == visible_mode(p, hidden_mode(p, vis))

RECURSIVE deterministic_loop(_, _, _, _)
deterministic_loop(p, new_vis, t, steps) ==
    IF t >= steps THEN new_vis
    ELSE deterministic_loop(p, deterministic_step(p, new_vis), t + 1, steps)

deterministic_iteration(p, vis, steps) ==
    deterministic_loop(p, AsType(vis), 0, steps)

random(visible, rng) == LayerRandom(vis_type, visible, NextU(rng))

(***************************************************************************)
(* Python dicts.  A dict is the sequence of its <<key, value>> items in    *)
(* insertion order, which is the order a for loop visits them in.          *)
(***************************************************************************)
DictKeys(d) == {d[i][1] : i \in 1..Len(d)}

\* d[key] = value
DictSet(d, key, value) ==
    IF key \in DictKeys(d)
    THEN [i \in 1..Len(d) |-> IF d[i][1] = key THEN <<key, value>> ELSE d[i]]
    ELSE Append(d, <<key, value>>)

(***************************************************************************)
(* The registries hidden.py looks names up in with getattr: the functions  *)
(* of the constraints, penalties and initialize modules.  The modules are  *)
(* not part of hidden.py; a lookup of a name outside a registry raises     *)
(* AttributeError.                                                         *)
(***************************************************************************)
ConstraintRegistry == {"non_negative"}
PenaltyRegistry == {"l2_penalty"}
InitRegistry == {"hinton"}

\* constraints.non_negative(tensor): clips the tensor at zero, in place
ConstraintApply(name, key, tensor) ==
    LET F == [x \in Int |-> IF x < 0 THEN 0 ELSE x]
    IN  IF key = "weights" THEN MapArr(F, Mat(tensor)).a
                           ELSE MapArr(F, Vec(tensor)).a

\* init_hidden.hinton(data, model): sets the weights to small random
\* numbers (0 once rounded), the visible bias from the mean of each column
\* of the data and the hidden bias to zero
InitApply(method, data, p) ==
    LET Sign(x) == IF x > 0 THEN 1 ELSE IF x < 0 THEN -1 ELSE 0
        colsum == NumpyMeanAxis0(data).a
    IN  [weights |-> [i \in 1..nvis |-> [j \in 1..nhid |-> 0]],
         visible_bias |-> [i \in 1..nvis |-> Sign(colsum[i])],
         hidden_bias |-> [j \in 1..nhid |-> 0]]

(***************************************************************************)
(* LatentModel: constraints and penalties                                  *)
(***************************************************************************)
\* the loop of add_constraints from the i-th item of cons on
RECURSIVE add_constraints_loop(_, _, _, _)
add_constraints_loop(p, cs, cons, i) ==
    IF i > Len(cons)
    THEN [exc |-> "none", constraints |-> cs]
    ELSE LET key == cons[i][1]
         IN  IF key \notin DOMAIN p
             THEN [exc |-> "AssertionError", constraints |-> cs]
             ELSE add_constraints_loop(p, DictSet(cs, key, cons[i][2]), cons, i + 1)

add_constraints(p, cs, cons) == add_constraints_loop(p, cs, cons, 1)

\* the loop of enforce_constraints from the i-th item of self.constraints on
RECURSIVE enforce_constraints_loop(_, _, _)
enforce_constraints_loop(p, cs, i) ==
    IF i > Len(cs)
    THEN [exc |-> "none", params |-> p]
    ELSE LET key == cs[i][1]
             name == cs[i][2]
         IN  IF name \notin ConstraintRegistry
             THEN [exc |-> "AttributeError", params |-> p]
             ELSE enforce_constraints_loop(
                      [p EXCEPT ![key] = ConstraintApply(name, key, p[key])],
                      cs, i + 1)

enforce_constraints(p, cs) == enforce_constraints_loop(p, cs, 1)

add_weight_decay(pen, strength, method) ==
    IF method \notin PenaltyRegistry
    THEN [exc |-> "AttributeError", penalty |-> pen]
    ELSE [exc |-> "none",
          penalty |-> <<<<"weights", [method |-> method, strength |-> strength]>>>>]

(***************************************************************************)
(* RestrictedBoltzmannMachine.initialize.  steps lists the statements of   *)
(* the method that ran: the getattr, the print of the except clause, the   *)
(* call statement func(data, self), enforce_constraints; invoked tells     *)
(* whether a strategy function was entered.                                *)
(***************************************************************************)
initialize(p, cs, data, method) ==
    IF method \in InitRegistry
    THEN LET e == enforce_constraints(InitApply(method, data, p), cs)
         IN  [exc |-> e.exc, params |-> e.params, invoked |-> TRUE,
              steps |-> <<"getattr", "func", "enforce_constraints">>]
    ELSE \* the except clause prints and falls through; func is unbound
         [exc |-> "UnboundLocalError", params |-> p, invoked |-> FALSE,
          steps |-> <<"getattr", "print", "func">>]

(***************************************************************************)
(* Inputs                                                                  *)
(***************************************************************************)
PVals == {0 - MaxP, 0, MaxP}

\* every ParameterStore of the model's shape with entries in PVals
ParamStores ==
    [weights : [1..nvis -> [1..nhid -> PVals]],
     visible_bias : [1..nvis -> PVals],
     hidden_bias : [1..nhid -> PVals]]

\* RestrictedBoltzmannMachine.__init__: random weights, zero biases
ConstructedStores ==
    {p \in ParamStores :
        /\ \A i \in 1..nvis : p.visible_bias[i] = 0
        /\ \A j \in 1..nhid : p.hidden_bias[j] = 0}

VisibleRows == [1..nvis -> LayerStates(vis_type)]
HiddenRows == [1..nhid -> LayerStates(hid_type)]

\* the batches of n rows
Batches(rows, n) == {Mat(b) : b \in [1..n -> rows]}

\* a single sample (1-D), or a batch of 1 .. maxb rows (2-D)
States(rows, maxb) ==
    {Vec(v) : v \in rows} \cup UNION {Batches(rows, n) : n \in 1..maxb}

\* the tapes of the random source: n thresholds, m uniform numbers
Rngs(draws, n, m) ==
    {[u |-> u, r |-> r, iu |-> 0, ir |-> 0] :
        u \in [1..n -> draws], r \in [1..m -> 0..(UniformRes - 1)]}

\* a call consumed its tapes exactly
Consumed(rng0, rng1) == rng1.iu = Len(rng0.u) /\ rng1.ir = Len(rng0.r)

Temperatures == {1, 2}

\* a dict of at most two items given to add_constraints: the keys are
\* parameter names or a name that is no parameter
ConsKeys == ParamNames \cup {"bogus"}
ConsInputs ==
    {<<>>} \cup {<<<<k, f>>>> : k \in ConsKeys, f \in ConstraintRegistry}
    \cup {c \in {<<<<k1, f1>>, <<k2, f2>>>> :
                    k1 \in ConsKeys, k2 \in ConsKeys,
                    f1 \in ConstraintRegistry, f2 \in ConstraintRegistry} :
            c[1][1] # c[2][1]}

(***************************************************************************)
(* State.  params, constraints and penalty are the attributes of the model *)
(* object (self.layers is fixed by vis_type and hid_type).  last records   *)
(* the latest call made on the object: the method, its arguments and what  *)
(* it returned or raised.                                                  *)
(***************************************************************************)
Returned(op, args, ret) == last' = [op |-> op, args |-> args, ret |-> ret]

\* a model object on which no call was made yet: __init__ leaves both
\* dicts empty
ModelObject(p) ==
    /\ params = p
    /\ constraints = <<>>
    /\ penalty = <<>>
    /\ last = [op |-> "none", args |-> <<>>, ret |-> <<>>]

CallAddConstraints(cons) ==
    LET r == add_constraints(params, constraints, cons)
    IN  /\ constraints' = r.constraints
        /\ Returned("add_constraints", [cons |-> cons], [exc |-> r.exc])
        /\ UNCHANGED <<params, penalty>>

CallEnforceConstraints ==
    LET r == enforce_constraints(params, constraints)
    IN  /\ params' = r.params
        /\ Returned("enforce_constraints", <<>>, [exc |-> r.exc])
        /\ UNCHANGED <<constraints, penalty>>

CallAddWeightDecay(strength, method) ==
    LET r == add_weight_decay(penalty, strength, method)
    IN  /\ penalty' = r.penalty
        /\ Returned("add_weight_decay",
                    [penalty |-> strength, method |-> method], [exc |-> r.exc])
        /\ UNCHANGED <<params, constraints>>

CallInitialize(data, method) ==
    LET r == initialize(params, constraints, data, method)
    IN  /\ params' = r.params
        /\ Returned("initialize", [data |-> data, method |-> method],
                    [exc |-> r.exc, steps |-> r.steps, invoked |-> r.invoked])
        /\ UNCHANGED <<constraints, penalty>>

CallResampleState(visibile, temperature, rng) ==
    LET r == resample_state(params, visibile, temperature, rng)
    IN  /\ Consumed(rng, r.rng)
        /\ Returned("resample_state",
                    [visibile |-> visibile, temperature |-> temperature, rng |-> rng],
                    [exc |-> r.exc, val |-> r.val, energies |-> r.energies,
                     visibile |-> visibile])
        /\ UNCHANGED <<params, constraints, penalty>>

CallMcstep(vis, rng) ==
    LET r == mcstep(params, vis, rng)
    IN  /\ Consumed(rng, r.rng)
        /\ Returned("mcstep", [vis |-> vis, rng |-> rng], [val |-> r.val])
        /\ UNCHANGED <<params, constraints, penalty>>

CallMarkovChain(vis, steps, resample, temperature, rng) ==
    LET r == markov_chain(params, vis, steps, resample, temperature, rng)
    IN  /\ Consumed(rng, r.rng)
        /\ Returned("markov_chain",
                    [vis |-> vis, steps |-> steps, resample |-> resample,
                     temperature |-> temperature, rng |-> rng],
                    [exc |-> r.exc, val |-> r.val, calls |-> r.calls,
                     vis |-> vis])
        /\ UNCHANGED <<params, constraints, penalty>>

CallMeanFieldStep(vis) ==
    /\ Returned("mean_field_step", [vis |-> vis],
                [val |-> mean_field_step(params, vis)])
    /\ UNCHANGED <<params, constraints, penalty>>

CallMeanFieldIteration(vis, steps) ==
    /\ Returned("mean_field_iteration", [vis |-> vis, steps |-> steps],
                [val |-> mean_field_iteration(params, vis, steps)])
    /\ UNCHANGED <<params, constraints, penalty>>

CallDeterministicStep(vis) ==
    /\ Returned("deterministic_step", [vis |-> vis],
                [val |-> deterministic_step(params, vis)])
    /\ UNCHANGED <<params, constraints, penalty>>

CallDeterministicIteration(vis, steps) ==
    /\ Returned("deterministic_iteration", [vis |-> vis, steps |-> steps],
                [val |-> deterministic_iteration(params, vis, steps)])
    /\ UNCHANGED <<params, constraints, penalty>>

CallRandom(visible, rng) ==
    /\ Returned("random", [visible |-> visible, rng |-> rng],
                [val |-> random(visible, rng)])
    /\ UNCHANGED <<params, constraints, penalty>>

\* hidden_field adding the product onto the hidden bias in place (+=)
CallHiddenFieldInPlace(visible) ==
    /\ Returned("hidden_field", [visible |-> visible],
                [val |-> hidden_field(params, visible)])
    /\ params' = IF visible.ndim = 1
                 THEN [params EXCEPT !.hidden_bias = hidden_field(params, visible).a]
                 ELSE params
    /\ UNCHANGED <<constraints, penalty>>

CallHiddenField(visible) ==
    /\ Returned("hidden_field", [visible |-> visible],
                [val |-> hidden_field(params, visible)])
    /\ UNCHANGED <<params, constraints, penalty>>

CallVisibleField(hidden) ==
    /\ Returned("visible_field", [hidden |-> hidden],
                [val |-> visible_field(params, hidden)])
    /\ UNCHANGED <<params, constraints, penalty>>

CallJointEnergy(visible, hidden) ==
    /\ Returned("joint_energy", [visible |-> visible, hidden |-> hidden],
                [val |-> joint_energy(params, visible, hidden)])
    /\ UNCHANGED <<params, constraints, penalty>>

CallMarginalFreeEnergy(visible) ==
    /\ Returned("marginal_free_energy", [visible |-> visible],
                [val |-> marginal_free_energy(params, visible)])
    /\ UNCHANGED <<params, constraints, penalty>>

CallDerivatives(visible) ==
    /\ Returned("derivatives", [visible |-> visible],
                [val |-> derivatives(params, visible)])
    /\ UNCHANGED <<params, constraints, penalty>>

(***************************************************************************)
(* Spec: the life of one model object.  It starts as __init__ leaves it    *)
(* and any method is called any number of times.  The arguments are a      *)
(* sample: one vector and one full batch per layer, random tapes of zeros. *)
(***************************************************************************)
\* the row whose units alternate on, off, on, ...
AltRow(type, n) ==
    [i \in 1..n |-> IF i % 2 = 1 THEN LayerOn(type) ELSE LayerOff(type)]
\* the row whose units are all off
OffRow(type, n) == [i \in 1..n |-> LayerOff(type)]

\* a vector, and a batch of MaxBatch rows, the first unlike the others
SampleStates(type, n) ==
    {Vec(AltRow(type, n)),
     Mat([k \in 1..MaxBatch |-> IF k = 1 THEN AltRow(type, n) ELSE OffRow(type, n)])}

LifeVisible == SampleStates(vis_type, nvis)
LifeHidden == SampleStates(hid_type, nhid)
LifeRngs(n, m) == Rngs({0}, n, m)
Rng0 == [u |-> <<>>, r |-> <<>>, iu |-> 0, ir |-> 0]

\* the stores __init__ can leave whose weights are the same along each row
LifeStores ==
    {p \in ConstructedStores :
        \A i \in 1..nvis, j \in 1..nhid : p.weights[i][j] = p.weights[i][1]}

Init == \E p \in LifeStores : ModelObject(p)

AddConstraints == \E cons \in ConsInputs : CallAddConstraints(cons)

EnforceConstraints == CallEnforceConstraints

AddWeightDecay ==
    \E method \in PenaltyRegistry \cup {"bogus"} : CallAddWeightDecay(1, method)

Initialize ==
    \E data \in {v \in LifeVisible : v.ndim = 2},
       method \in InitRegistry \cup {"bogus"} :
        CallInitialize(data, method)

ResampleState ==
    \E visibile \in LifeVisible :
        LET need == resample_state(params, visibile, 1, Rng0).rng
        IN  \E rng \in LifeRngs(need.iu, need.ir) :
                CallResampleState(visibile, 1, rng)

Mcstep == \E vis \in LifeVisible, rng \in LifeRngs(2, 0) : CallMcstep(vis, rng)

MarkovChain ==
    \E vis \in LifeVisible, steps \in {MaxSteps}, resample \in BOOLEAN :
        LET need == markov_chain(params, vis, steps, resample, 1, Rng0).rng
        IN  \E rng \in LifeRngs(need.iu, need.ir) :
                CallMarkovChain(vis, steps, resample, 1, rng)

MeanFieldStep == \E vis \in LifeVisible : CallMeanFieldStep(vis)

MeanFieldIteration ==
    \E vis \in LifeVisible : CallMeanFieldIteration(vis, MaxSteps)

DeterministicStep == \E vis \in LifeVisible : CallDeterministicStep(vis)

DeterministicIteration ==
    \E vis \in LifeVisible : CallDeterministicIteration(vis, MaxSteps)

Random == \E visible \in LifeVisible, rng \in LifeRngs(1, 0) : CallRandom(visible, rng)

HiddenField == \E visible \in LifeVisible : CallHiddenField(visible)

VisibleField == \E hidden \in LifeHidden : CallVisibleField(hidden)

JointEnergy ==
    \E visible \in LifeVisible, hidden \in LifeHidden :
        /\ visible.ndim = hidden.ndim
        /\ CallJointEnergy(visible, hidden)

MarginalFreeEnergy == \E visible \in LifeVisible : CallMarginalFreeEnergy(visible)

Derivatives == \E visible \in LifeVisible : CallDerivatives(visible)

Next ==
    \/ AddConstraints
    \/ EnforceConstraints
    \/ AddWeightDecay
    \/ Initialize
    \/ ResampleState
    \/ Mcstep
    \/ MarkovChain
    \/ MeanFieldStep
    \/ MeanFieldIteration
    \/ DeterministicStep
    \/ DeterministicIteration
    \/ Random
    \/ HiddenField
    \/ VisibleField
    \/ JointEnergy
    \/ MarginalFreeEnergy
    \/ Derivatives

Spec == Init /\ [][Next]_vars

(***************************************************************************)
(* SpecEnergy: the energies and the derivatives as functions.  The object  *)
(* holds any ParameterStore (an optimizer has updated it since __init__)   *)
(* and one call is made on it.                                             *)
(***************************************************************************)
InitEnergy == \E p \in ParamStores : ModelObject(p)

\* joint_energy on a single sample and on a batch of one row
EnergyJointEnergy ==
    /\ last.op = "none"
    /\ \E visible \in States(VisibleRows, 1), hidden \in States(HiddenRows, 1) :
            /\ visible.ndim = hidden.ndim
            /\ CallJointEnergy(visible, hidden)

EnergyMarginalFreeEnergy ==
    /\ last.op = "none"
    /\ \E visible \in States(VisibleRows, MaxBatch) :
            CallMarginalFreeEnergy(visible)

EnergyDerivatives ==
    /\ last.op = "none"
    /\ \E visible \in States(VisibleRows, MaxBatch) : CallDerivatives(visible)

NextEnergy ==
    \/ EnergyJointEnergy
    \/ EnergyMarginalFreeEnergy
    \/ EnergyDerivatives

SpecEnergy == InitEnergy /\ [][NextEnergy]_vars

(***************************************************************************)
(* SpecChain: the Gibbs chain.  The object is as __init__ leaves it and    *)
(* one call of mcstep, markov_chain or resample_state is made on it, with  *)
(* every input and every tape of random draws.                             *)
(***************************************************************************)
\* the stores __init__ can leave whose weights are all nonzero
ChainStores ==
    {p \in ConstructedStores :
        \A i \in 1..nvis, j \in 1..nhid : p.weights[i][j] # 0}

InitChain == \E p \in ChainStores : ModelObject(p)

ChainMcstep ==
    /\ last.op = "none"
    /\ \E vis \in States(VisibleRows, MaxBatch), rng \in Rngs(Draws, 2, 0) :
            CallMcstep(vis, rng)

ChainMarkovChain ==
    /\ last.op = "none"
    /\ \E vis \in States(VisibleRows, MaxBatch), steps \in 0..MaxSteps,
          resample \in BOOLEAN :
        \E temperature \in IF resample THEN Temperatures ELSE {1} :
            LET need == markov_chain(params, vis, steps, resample,
                                     temperature, Rng0).rng
            IN  \E rng \in Rngs(Draws, need.iu, need.ir) :
                    CallMarkovChain(vis, steps, resample, temperature, rng)

ChainResampleState ==
    /\ last.op = "none"
    /\ \E visibile \in States(VisibleRows, MaxBatch),
          temperature \in Temperatures :
            LET need == resample_state(params, visibile, temperature, Rng0).rng
            IN  \E rng \in Rngs(Draws, need.iu, need.ir) :
                    CallResampleState(visibile, temperature, rng)

NextChain ==
    \/ ChainMcstep
    \/ ChainMarkovChain
    \/ ChainResampleState

SpecChain == InitChain /\ [][NextChain]_vars

(***************************************************************************)
(* Properties                                                              *)
(***************************************************************************)
\* the rows of a batch, as a set
RowSet(x) == {x.a[k] : k \in 1..Len(x.a)}

\* the energy of one visible row v and one hidden row h, term by term:
\* -v.visible_bias - h.hidden_bias - sum_ij v_i weights_ij h_j
RowEnergy(p, v, h) ==
    0 - SumSeq([i \in 1..nvis |-> v[i] * p.visible_bias[i]])
      - SumSeq([j \in 1..nhid |-> h[j] * p.hidden_bias[j]])
      - SumSeq([i \in 1..nvis |->
                  SumSeq([j \in 1..nhid |-> v[i] * p.weights[i][j] * h[j]])])

\* the free energy of one visible row v:
\* -v.visible_bias - sum_j log_partition_function(hidden_field(v))_j
RowFreeEnergy(p, v) ==
    0 - SumSeq([i \in 1..nvis |-> v[i] * p.visible_bias[i]])
      - SumSeq(LayerLogPartitionFunction(hid_type, hidden_field(p, Vec(v))).a)

\* C1: add_constraints is all-or-nothing: a call whose map holds a key that
\* is no parameter name fails and leaves the constraint map and the params
\* as they were before the call.
C1_AddConstraintsAllOrNothing ==
    [][(/\ last'.op = "add_constraints"
        /\ \E i \in 1..Len(last'.args.cons) :
              last'.args.cons[i][1] \notin ParamNames)
       => (/\ last'.ret.exc # "none"
           /\ constraints' = constraints
           /\ params' = params)]_vars

\* C2: the energies resample_state turns into importance weights are the
\* values marginal_free_energy returns for the visible batch.
C2_ResampleUsesFreeEnergy ==
    last.op = "resample_state" =>
        /\ ~IsNone(last.ret.energies)
        /\ last.ret.energies = marginal_free_energy(params, last.args.visibile)

\* C3: marginal_free_energy is per-sample: for a batch of N rows it yields
\* N energies, the i-th being the free energy of row i alone.
C3_FreeEnergyPerSample ==
    (last.op = "marginal_free_energy" /\ last.args.visible.ndim = 2) =>
        LET v == last.args.visible
            e == last.ret.val
        IN  /\ e.ndim = 1
            /\ Len(e.a) = Len(v.a)
            /\ \A k \in 1..Len(v.a) :
                  /\ e.a[k] = RowFreeEnergy(params, v.a[k])
                  /\ Scal(e.a[k]) = marginal_free_energy(params, Vec(v.a[k]))

\* n-fold composition of mcstep on v, drawing from rng
RECURSIVE McstepN(_, _, _, _)
McstepN(p, v, n, rng) ==
    IF n = 0 THEN [val |-> v, rng |-> rng]
    ELSE LET prev == McstepN(p, v, n - 1, rng)
         IN  mcstep(p, prev.val, prev.rng)

\* C4: markov_chain(v, steps=n, resample=False) returns the n-fold
\* composition of mcstep on v under the same random draws: v itself for
\* n = 0, mcstep(mcstep(v)) for n = 2; each mcstep is fed the state the
\* previous one produced, and the input is left as it was.
C4_MarkovChainIsComposition ==
    (last.op = "markov_chain" /\ ~last.args.resample) =>
        LET v == last.args.vis
            n == last.args.steps
            calls == last.ret.calls
        IN  /\ last.ret.exc = "none"
            /\ last.ret.val = McstepN(params, v, n, last.args.rng).val
            /\ n = 0 => last.ret.val = v
            /\ n = 2 => last.ret.val =
                  LET first == mcstep(params, v, last.args.rng)
                  IN  mcstep(params, first.val, first.rng).val
            /\ Len(calls) = n
            /\ \A t \in 1..n :
                  /\ calls[t].f = "mcstep"
                  /\ calls[t].arg = IF t = 1 THEN v ELSE calls[t - 1].ret
            /\ n > 0 => last.ret.val = calls[n].ret
            /\ last.ret.vis = v

C4_Witness ==
    /\ last.op = "markov_chain"
    /\ ~last.args.resample
    /\ last.args.steps = 2
    /\ last.args.vis.ndim = 2
    /\ last.ret.calls[1].ret # last.args.vis
    /\ last.ret.val # last.ret.calls[1].ret
    /\ last.ret.val # last.args.vis

\* C5: with resample set, markov_chain calls mcstep, resample_state, mcstep,
\* resample_state, ...: resample_state once after each of the steps mcstep
\* calls, on that step's output and with the caller's temperature, its
\* result being the input of the next mcstep; with resample unset
\* resample_state is never called.
C5_ResampleAfterEveryStep ==
    last.op = "markov_chain" =>
        LET n == last.args.steps
            calls == last.ret.calls
        IN  IF last.args.resample
            THEN /\ Len(calls) = 2 * n
                 /\ \A t \in 1..n :
                       /\ calls[2 * t - 1].f = "mcstep"
                       /\ calls[2 * t].f = "resample_state"
                       /\ calls[2 * t].arg = calls[2 * t - 1].ret
                       /\ calls[2 * t].temperature = last.args.temperature
                       /\ t < n => calls[2 * t + 1].arg = calls[2 * t].ret
            ELSE \A t \in 1..Len(calls) : calls[t].f # "resample_state"

\* C6: resample_state(v, temperature=T) returns a batch with as many rows
\* as v, each row a row of v, and leaves v as it was.
C6_ResampleDrawsFromBatch ==
    (last.op = "resample_state" /\ last.args.visibile.ndim = 2) =>
        /\ last.ret.exc = "none"
        /\ last.ret.val.ndim = 2
        /\ Len(last.ret.val.a) = Len(last.args.visibile.a)
        /\ RowSet(last.ret.val) \subseteq RowSet(last.args.visibile)
        /\ last.ret.visibile = last.args.visibile

\* C7: initialize with an unrecognized method fails at the lookup: the
\* failure is the lookup error, no statement of initialize runs after the
\* failed lookup, no strategy function is invoked and the params are as
\* they were.
C7_InitializeFailsAtLookup ==
    [][(last'.op = "initialize" /\ last'.args.method \notin InitRegistry)
       => (/\ last'.ret.exc = "AttributeError"
           /\ last'.ret.steps = <<"getattr">>
           /\ ~last'.ret.invoked
           /\ params' = params)]_vars

\* C8: joint_energy on a batch of one row equals joint_energy on that row
\* given as a single sample, and both equal
\* -visible.visible_bias - hidden.hidden_bias - sum_ij v_i weights_ij h_j.
C8_JointEnergyBatchOfOne ==
    last.op = "joint_energy" =>
        LET v == last.args.visible
            h == last.args.hidden
            e == last.ret.val
        IN  /\ e.ndim = 0
            /\ v.ndim = 1 => e.a = RowEnergy(params, v.a, h.a) * e.den
            /\ (v.ndim = 2 /\ Len(v.a) = 1) =>
                  LET single == joint_energy(params, Vec(v.a[1]), Vec(h.a[1]))
                  IN  /\ e.a * single.den = single.a * e.den
                      /\ e.a = RowEnergy(params, v.a[1], h.a[1]) * e.den

C8_Witness ==
    /\ last.op = "joint_energy"
    /\ last.args.visible.ndim = 2
    /\ Len(last.args.visible.a) = 1
    /\ last.ret.val.a # 0
    /\ \E i \in 1..nvis, j \in 1..nhid :
          /\ params.weights[i][j] # 0
          /\ last.args.hidden.a[1][j] # 0
    /\ \E i \in 1..nvis : params.visible_bias[i] # 0
    /\ \E j \in 1..nhid : params.hidden_bias[j] # 0 /\ last.args.hidden.a[1][j] # 0

\* C9: derivatives(visible) returns exactly the entries weights,
\* visible_bias and hidden_bias, shaped like the parameters, equal to the
\* negation of the batch-averaged visible, the batch-averaged
\* hidden_mean(visible) and the batch-averaged outer product of the two;
\* for a single sample, the same quantities without the average.
C9_Derivatives ==
    last.op = "derivatives" =>
        LET v == last.args.visible
            m == hidden_mean(params, v)
            d == last.ret.val
            \* the rows averaged over, and their number
            vs == IF v.ndim = 2 THEN v.a ELSE <<v.a>>
            ms == IF v.ndim = 2 THEN m.a ELSE <<m.a>>
            N == Len(vs)
        IN  /\ DOMAIN d = ParamNames
            /\ d.visible_bias.ndim = 1 /\ Len(d.visible_bias.a) = nvis
            /\ d.hidden_bias.ndim = 1 /\ Len(d.hidden_bias.a) = nhid
            /\ d.weights.ndim = 2 /\ Len(d.weights.a) = nvis
            /\ \A i \in 1..nvis : Len(d.weights.a[i]) = nhid
            /\ v.ndim = 1 =>
                  d.visible_bias.den = 1 /\ d.hidden_bias.den = 1 /\ d.weights.den = 1
            /\ \A i \in 1..nvis :
                  d.visible_bias.a[i] * N =
                      (0 - SumSeq([k \in 1..N |-> vs[k][i]])) * d.visible_bias.den
            /\ \A j \in 1..nhid :
                  d.hidden_bias.a[j] * N =
                      (0 - SumSeq([k \in 1..N |-> ms[k][j]])) * d.hidden_bias.den
            /\ \A i \in 1..nvis, j \in 1..nhid :
                  d.weights.a[i][j] * N =
                      (0 - SumSeq([k \in 1..N |-> vs[k][i] * ms[k][j]])) * d.weights.den

C9_Witness ==
    /\ last.op = "derivatives"
    /\ last.args.visible.ndim = 2
    /\ Len(last.args.visible.a) = MaxBatch
    /\ last.args.visible.a[1] # last.args.visible.a[2]
    /\ hidden_mean(params, last.args.visible).a[1]
          # hidden_mean(params, last.args.visible).a[2]
    /\ \E i \in 1..nvis, j \in 1..nhid : last.ret.val.weights.a[i][j] # 0
    /\ \E j \in 1..nhid : last.ret.val.hidden_bias.a[j] # 0

\* the operations C10 lists
FrameOps ==
    {"add_constraints", "add_weight_decay", "resample_state", "mcstep",
     "markov_chain", "mean_field_step", "mean_field_iteration",
     "deterministic_step", "deterministic_iteration", "random",
     "hidden_field", "visible_field", "joint_energy",
     "marginal_free_energy", "derivatives"}

\* weights is nvis x nhid, visible_bias has nvis entries, hidden_bias nhid
ShapesOK(p) ==
    /\ Len(p.weights) = nvis
    /\ \A i \in 1..nvis : Len(p.weights[i]) = nhid
    /\ Len(p.visible_bias) = nvis
    /\ Len(p.hidden_bias) = nhid

\* C10: a call of add_constraints, add_weight_decay, resample_state, mcstep,
\* markov_chain, mean_field_step/iteration, deterministic_step/iteration,
\* random, hidden_field, visible_field, joint_energy, marginal_free_energy
\* or derivatives leaves weights, visible_bias and hidden_bias with the
\* values and the shapes they had before the call.
C10_OnlyEnforceChangesParams ==
    [][last'.op \in FrameOps => (params' = params /\ ShapesOK(params'))]_vars

C10_Witness ==
    /\ last.op \in FrameOps
    /\ Len(constraints) > 0
    /\ Len(penalty) > 0
    /\ \E i \in 1..nvis : params.visible_bias[i] # 0

=============================================================================
